---- MODULE Spec2Model ----
(***************************************************************************)
(* A model of uer/trainer.py: the launcher train_and_validate, the per-    *)
(* process worker, and the seven training loops train_bert, train_mlm,      *)
(* train_albert, train_lm, train_bilm, train_cls and train_mt.              *)
(*                                                                          *)
(* The collaborators the file only calls (the loader, the model's forward,  *)
(* save_model, apex, torch.distributed) are modelled by their call          *)
(* contract: a forward pass returns a loss-info tuple drawn from a small    *)
(* set, the process-group join returns once every rank of the world has     *)
(* entered it, and a backward pass under DistributedDataParallel returns    *)
(* once every rank has entered the backward pass of the same step.          *)
(*                                                                          *)
(* Losses and counts are small naturals.  A quotient the code computes in   *)
(* floating point is kept as the pair <<numerator, denominator>>; Fmt is    *)
(* the "{:W.Df}" conversion applied to such a pair.                         *)
(***************************************************************************)
EXTENDS Integers, Sequences, FiniteSets, TLC

VARIABLES
    args,           \* per process: the configuration object the worker was given
    apex,           \* whether "from apex import amp" succeeds in this environment
    gpu_ranks,      \* the rank list handed to every worker
    pc,             \* per process: where the worker is
    proc_id,        \* per process: the first argument of worker()
    rank,           \* per process: worker's local rank  (None until resolved)
    gpu_id,         \* per process: worker's local gpu_id
    loader,         \* per process: the (shard, shard count, cyclic) the loader was built with
    group,          \* ranks that have entered dist.init_process_group
    steps,          \* per process: the loop counter
    tot,            \* per process: the window accumulators (total_loss, ...)
    cur,            \* per process: the loop body's locals of the current step
    grads,          \* per process: the parameters' .grad, as the contributions summed into it
    optimizer,      \* per process: number of optimizer.step() calls applied to the parameters
    scheduler,      \* per process: the schedule [t_total, warmup_steps, last_epoch]
    hist,           \* per process: the batches pulled and what forward returned, by step
    events,         \* per process: the calls made, in program order
    updates,        \* per process: what each optimizer.step() applied
    reports,        \* per process: the lines printed by the report block
    checkpoints     \* per process: the save_model calls

vars == <<args, apex, gpu_ranks, pc, proc_id, rank, gpu_id, loader, group, steps,
          tot, cur, grads, optimizer, scheduler, hist, events, updates, reports,
          checkpoints>>

(***************************************************************************)
(* Bounds of the model.                                                     *)
(***************************************************************************)
MaxSteps == 4
MaxAccum == 2
MaxInterval == 4
MaxDistSteps == 2

\* The process slots: every run of the model has at most two workers.
Procs == {0, 1}
None == "None"

\* Samples for the configuration values that only label the run.
BatchSizes == {2}
OutputPaths == {"model.bin"}
DeviceIds == {0}
Elapsed == {2}
WorldSizes == {2}
DistIntervals == {1, 2}

(***************************************************************************)
(* str2trainer: the dispatch table of the training loops.                   *)
(***************************************************************************)
str2trainer ==
    [bert |-> "train_bert", lm |-> "train_lm", mlm |-> "train_mlm",
     bilm |-> "train_bilm", albert |-> "train_albert", mt |-> "train_mt",
     t5 |-> "train_mt", cls |-> "train_cls"]

Targets == DOMAIN str2trainer

(***************************************************************************)
(* What one loop iteration reads from the outside: the batch's shape        *)
(* (src.size(0), src.size(1)) and the loss-info tuple forward returns.      *)
(* Fields a family's tuple does not have are 0.  Every sample satisfies     *)
(* correct <= denominator and sentence-level correct <= rows; one sample    *)
(* of each family with a denominator has denominator 0.                     *)
(***************************************************************************)
Draw(r, l, l1, l2, c1, c2, d) ==
    [rows |-> r, seqlen |-> l, loss_1 |-> l1, loss_2 |-> l2,
     correct_1 |-> c1, correct_2 |-> c2, denominator |-> d]

NoDraw == Draw(0, 0, 0, 0, 0, 0, 0)

\* (loss_mlm, loss_nsp|loss_sop, correct_mlm, correct_nsp|correct_sop, denominator)
DrawsTwoObjective ==
    { Draw(2, 2, 1, 2, 3, 1, 4),
      Draw(1, 3, 3, 1, 0, 1, 0) }

\* (loss_forward, loss_backward, correct_forward, correct_backward, denominator)
DrawsBilm ==
    { Draw(2, 2, 1, 2, 80, 60, 100),
      Draw(1, 2, 3, 1, 0, 0, 0) }

\* (loss, correct, denominator)
DrawsOneObjective ==
    { Draw(2, 2, 1, 0, 3, 0, 4),
      Draw(1, 3, 3, 0, 0, 0, 0) }

\* (loss, correct)
DrawsCls ==
    { Draw(2, 2, 1, 0, 1, 0, 0),
      Draw(2, 3, 3, 0, 2, 0, 0) }

Draws(trainer) ==
    CASE trainer \in {"train_bert", "train_albert"} -> DrawsTwoObjective
      [] trainer = "train_bilm" -> DrawsBilm
      [] trainer = "train_cls" -> DrawsCls
      [] OTHER -> DrawsOneObjective

(***************************************************************************)
(* "{:W.Df}".format(n / d): the quotient rounded to D decimals, as the      *)
(* integer count of 10^-D units.  Python formats the correctly rounded      *)
(* decimal expansion of the double; a tie is rounded to even.               *)
(***************************************************************************)
Pow10(k) == IF k = 0 THEN 1 ELSE IF k = 1 THEN 10 ELSE IF k = 2 THEN 100 ELSE 1000

Fmt(n, d, digits) ==
    LET scaled == n * Pow10(digits)
        q == scaled \div d
        r == scaled % d
    IN  IF 2 * r > d \/ (2 * r = d /\ q % 2 = 1) THEN q + 1 ELSE q

FmtFrac(f, digits) == Fmt(f[1], f[2], digits)


(***************************************************************************)
(* The guard shared by the report block and the checkpoint block:           *)
(* (not args.dist_train or (args.dist_train and rank == 0)).                *)
(***************************************************************************)
\* Mutant of is_writer: the rank test is dropped.
is_writer_any(a, rk) == TRUE

is_writer(a, rk) == ~a.dist_train \/ (a.dist_train /\ rk = 0)

\* Mutant of checkpoint_path: the step tag is dropped.
checkpoint_path_untagged(a, s) == a.output_model_path

\* args.output_model_path + "-" + str(steps)
checkpoint_path(a, s) == a.output_model_path \o "-" \o ToString(s)

\* The done_tokens expression of the loops that do not count tokens per step.
nominal_tokens(a, b) ==
    IF a.dist_train
    THEN a.batch_size * b.seqlen * a.report_steps * a.world_size
    ELSE a.batch_size * b.seqlen * a.report_steps

(***************************************************************************)
(* train_bert.                                                              *)
(***************************************************************************)
train_bert_init ==
    [total_loss |-> 0, total_loss_mlm |-> 0, total_loss_nsp |-> 0,
     total_correct_mlm |-> 0, total_denominator |-> 0,
     total_correct_nsp |-> 0, total_instances |-> 0, done_tokens |-> 0]

train_bert_accumulate(t, b) ==
    [total_loss |-> t.total_loss + (b.loss_1 + b.loss_2),
     total_loss_mlm |-> t.total_loss_mlm + b.loss_1,
     total_loss_nsp |-> t.total_loss_nsp + b.loss_2,
     total_correct_mlm |-> t.total_correct_mlm + b.correct_1,
     total_correct_nsp |-> t.total_correct_nsp + b.correct_2,
     total_denominator |-> t.total_denominator + b.denominator,
     total_instances |-> t.total_instances + b.rows,
     done_tokens |-> t.done_tokens + b.rows * b.seqlen]

\* Mutant of train_bert_loss: the division by accumulation_steps is dropped.
train_bert_loss_unscaled(a, b) == <<b.loss_1 + b.loss_2, 1>>

train_bert_loss(a, b) == <<b.loss_1 + b.loss_2, a.accumulation_steps>>

\* Mutant of train_bert_report: the reset leaves done_tokens as it is.
train_bert_report_tokens_kept(a, t, b, s, e) ==
    LET done_tokens == IF a.dist_train THEN t.done_tokens * a.world_size
                       ELSE t.done_tokens
        raw == [steps |-> s, total_steps |-> a.total_steps,
                done_tokens |-> done_tokens, elapsed |-> e,
                loss |-> <<t.total_loss, a.report_steps>>,
                loss_1 |-> <<t.total_loss_mlm, a.report_steps>>,
                loss_2 |-> <<t.total_loss_nsp, a.report_steps>>,
                acc_1 |-> <<t.total_correct_mlm, t.total_denominator>>,
                acc_2 |-> <<t.total_correct_nsp, t.total_instances>>]
    IN  IF t.total_denominator = 0 \/ t.total_instances = 0
        THEN [raised |-> TRUE, raw |-> raw, line |-> <<>>,
              tot |-> [t EXCEPT !.done_tokens = done_tokens]]
        ELSE [raised |-> FALSE, raw |-> raw,
              line |-> <<s, a.total_steps, Fmt(done_tokens, e, 2),
                         FmtFrac(raw.loss, 2), FmtFrac(raw.loss_1, 3),
                         FmtFrac(raw.loss_2, 3), FmtFrac(raw.acc_1, 3),
                         FmtFrac(raw.acc_2, 3)>>,
              tot |-> [train_bert_init EXCEPT !.done_tokens = done_tokens]]

train_bert_report(a, t, b, s, e) ==
    LET done_tokens == IF a.dist_train THEN t.done_tokens * a.world_size
                       ELSE t.done_tokens
        raw == [steps |-> s, total_steps |-> a.total_steps,
                done_tokens |-> done_tokens, elapsed |-> e,
                loss |-> <<t.total_loss, a.report_steps>>,
                loss_1 |-> <<t.total_loss_mlm, a.report_steps>>,
                loss_2 |-> <<t.total_loss_nsp, a.report_steps>>,
                acc_1 |-> <<t.total_correct_mlm, t.total_denominator>>,
                acc_2 |-> <<t.total_correct_nsp, t.total_instances>>]
    IN  IF t.total_denominator = 0 \/ t.total_instances = 0
        THEN [raised |-> TRUE, raw |-> raw, line |-> <<>>,
              tot |-> [t EXCEPT !.done_tokens = done_tokens]]
        ELSE [raised |-> FALSE, raw |-> raw,
              line |-> <<s, a.total_steps, Fmt(done_tokens, e, 2),
                         FmtFrac(raw.loss, 2), FmtFrac(raw.loss_1, 3),
                         FmtFrac(raw.loss_2, 3), FmtFrac(raw.acc_1, 3),
                         FmtFrac(raw.acc_2, 3)>>,
              tot |-> train_bert_init]

(***************************************************************************)
(* train_albert: train_bert with the sentence-order objective.              *)
(***************************************************************************)
train_albert_init ==
    [total_loss |-> 0, total_loss_mlm |-> 0, total_loss_sop |-> 0,
     total_correct_mlm |-> 0, total_denominator |-> 0,
     total_correct_sop |-> 0, total_instances |-> 0, done_tokens |-> 0]

train_albert_accumulate(t, b) ==
    [total_loss |-> t.total_loss + (b.loss_1 + b.loss_2),
     total_loss_mlm |-> t.total_loss_mlm + b.loss_1,
     total_loss_sop |-> t.total_loss_sop + b.loss_2,
     total_correct_mlm |-> t.total_correct_mlm + b.correct_1,
     total_correct_sop |-> t.total_correct_sop + b.correct_2,
     total_denominator |-> t.total_denominator + b.denominator,
     total_instances |-> t.total_instances + b.rows,
     done_tokens |-> t.done_tokens + b.rows * b.seqlen]

train_albert_loss(a, b) == <<b.loss_1 + b.loss_2, a.accumulation_steps>>

train_albert_report(a, t, b, s, e) ==
    LET done_tokens == IF a.dist_train THEN t.done_tokens * a.world_size
                       ELSE t.done_tokens
        raw == [steps |-> s, total_steps |-> a.total_steps,
                done_tokens |-> done_tokens, elapsed |-> e,
                loss |-> <<t.total_loss, a.report_steps>>,
                loss_1 |-> <<t.total_loss_mlm, a.report_steps>>,
                loss_2 |-> <<t.total_loss_sop, a.report_steps>>,
                acc_1 |-> <<t.total_correct_mlm, t.total_denominator>>,
                acc_2 |-> <<t.total_correct_sop, t.total_instances>>]
    IN  IF t.total_denominator = 0 \/ t.total_instances = 0
        THEN [raised |-> TRUE, raw |-> raw, line |-> <<>>,
              tot |-> [t EXCEPT !.done_tokens = done_tokens]]
        ELSE [raised |-> FALSE, raw |-> raw,
              line |-> <<s, a.total_steps, Fmt(done_tokens, e, 2),
                         FmtFrac(raw.loss, 2), FmtFrac(raw.loss_1, 3),
                         FmtFrac(raw.loss_2, 3), FmtFrac(raw.acc_1, 3),
                         FmtFrac(raw.acc_2, 3)>>,
              tot |-> train_albert_init]

(***************************************************************************)
(* train_mlm.  total_loss_mlm and total_loss_nsp are set up and never       *)
(* touched again.                                                           *)
(***************************************************************************)
train_mlm_init ==
    [total_loss |-> 0, total_loss_mlm |-> 0, total_loss_nsp |-> 0,
     total_correct |-> 0, total_denominator |-> 0]

train_mlm_accumulate(t, b) ==
    [t EXCEPT !.total_loss = @ + b.loss_1,
              !.total_correct = @ + b.correct_1,
              !.total_denominator = @ + b.denominator]

train_mlm_loss(a, b) == <<b.loss_1, a.accumulation_steps>>

\* Mutant of train_mlm_report: a zero denominator prints an accuracy of 0.
train_mlm_report_guarded(a, t, b, s, e) ==
    LET done_tokens == nominal_tokens(a, b)
        raw == [steps |-> s, total_steps |-> a.total_steps,
                done_tokens |-> done_tokens, elapsed |-> e,
                loss |-> <<t.total_loss, a.report_steps>>,
                acc_1 |-> <<t.total_correct, t.total_denominator>>]
    IN  [raised |-> FALSE, raw |-> raw,
         line |-> <<s, a.total_steps, Fmt(done_tokens, e, 2),
                    FmtFrac(raw.loss, 2),
                    IF t.total_denominator = 0 THEN 0 ELSE FmtFrac(raw.acc_1, 3)>>,
         tot |-> [t EXCEPT !.total_loss = 0, !.total_correct = 0,
                           !.total_denominator = 0]]

\* Mutant of train_mlm_report: the reset leaves total_correct as it is.
train_mlm_report_stale(a, t, b, s, e) ==
    LET done_tokens == nominal_tokens(a, b)
        raw == [steps |-> s, total_steps |-> a.total_steps,
                done_tokens |-> done_tokens, elapsed |-> e,
                loss |-> <<t.total_loss, a.report_steps>>,
                acc_1 |-> <<t.total_correct, t.total_denominator>>]
    IN  IF t.total_denominator = 0
        THEN [raised |-> TRUE, raw |-> raw, line |-> <<>>, tot |-> t]
        ELSE [raised |-> FALSE, raw |-> raw,
              line |-> <<s, a.total_steps, Fmt(done_tokens, e, 2),
                         FmtFrac(raw.loss, 2), FmtFrac(raw.acc_1, 3)>>,
              tot |-> [t EXCEPT !.total_loss = 0, !.total_denominator = 0]]

train_mlm_report(a, t, b, s, e) ==
    LET done_tokens == nominal_tokens(a, b)
        raw == [steps |-> s, total_steps |-> a.total_steps,
                done_tokens |-> done_tokens, elapsed |-> e,
                loss |-> <<t.total_loss, a.report_steps>>,
                acc_1 |-> <<t.total_correct, t.total_denominator>>]
    IN  IF t.total_denominator = 0
        THEN [raised |-> TRUE, raw |-> raw, line |-> <<>>, tot |-> t]
        ELSE [raised |-> FALSE, raw |-> raw,
              line |-> <<s, a.total_steps, Fmt(done_tokens, e, 2),
                         FmtFrac(raw.loss, 2), FmtFrac(raw.acc_1, 3)>>,
              tot |-> [t EXCEPT !.total_loss = 0, !.total_correct = 0,
                                !.total_denominator = 0]]

(***************************************************************************)
(* train_lm.                                                                *)
(***************************************************************************)
train_lm_init == [total_loss |-> 0, total_correct |-> 0, total_denominator |-> 0]

train_lm_accumulate(t, b) ==
    [total_loss |-> t.total_loss + b.loss_1,
     total_correct |-> t.total_correct + b.correct_1,
     total_denominator |-> t.total_denominator + b.denominator]

train_lm_loss(a, b) == <<b.loss_1, a.accumulation_steps>>

train_lm_report(a, t, b, s, e) ==
    LET done_tokens == nominal_tokens(a, b)
        raw == [steps |-> s, total_steps |-> a.total_steps,
                done_tokens |-> done_tokens, elapsed |-> e,
                loss |-> <<t.total_loss, a.report_steps>>,
                acc_1 |-> <<t.total_correct, t.total_denominator>>]
    IN  IF t.total_denominator = 0
        THEN [raised |-> TRUE, raw |-> raw, line |-> <<>>, tot |-> t]
        ELSE [raised |-> FALSE, raw |-> raw,
              line |-> <<s, a.total_steps, Fmt(done_tokens, e, 2),
                         FmtFrac(raw.loss, 2), FmtFrac(raw.acc_1, 3)>>,
              tot |-> train_lm_init]

(***************************************************************************)
(* train_bilm.  The report formats loss_forward and loss_backward, the      *)
(* loss tensors of the current step, where the other loops format a         *)
(* window sum divided by report_steps.                                      *)
(***************************************************************************)
train_bilm_init ==
    [total_loss |-> 0, total_loss_forward |-> 0, total_loss_backward |-> 0,
     total_correct_forward |-> 0, total_correct_backward |-> 0,
     total_denominator |-> 0]

\* Mutant of train_bilm_accumulate: the backward count adds correct_forward.
train_bilm_accumulate_copied(t, b) ==
    [total_loss |-> t.total_loss + (b.loss_1 + b.loss_2),
     total_loss_forward |-> t.total_loss_forward + b.loss_1,
     total_loss_backward |-> t.total_loss_backward + b.loss_2,
     total_correct_forward |-> t.total_correct_forward + b.correct_1,
     total_correct_backward |-> t.total_correct_backward + b.correct_1,
     total_denominator |-> t.total_denominator + b.denominator]

train_bilm_accumulate(t, b) ==
    [total_loss |-> t.total_loss + (b.loss_1 + b.loss_2),
     total_loss_forward |-> t.total_loss_forward + b.loss_1,
     total_loss_backward |-> t.total_loss_backward + b.loss_2,
     total_correct_forward |-> t.total_correct_forward + b.correct_1,
     total_correct_backward |-> t.total_correct_backward + b.correct_2,
     total_denominator |-> t.total_denominator + b.denominator]

train_bilm_loss(a, b) == <<b.loss_1 + b.loss_2, a.accumulation_steps>>

train_bilm_report(a, t, b, s, e) ==
    LET done_tokens == nominal_tokens(a, b)
        raw == [steps |-> s, total_steps |-> a.total_steps,
                done_tokens |-> done_tokens, elapsed |-> e,
                loss |-> <<t.total_loss, a.report_steps>>,
                loss_1 |-> <<b.loss_1, 1>>,
                loss_2 |-> <<b.loss_2, 1>>,
                acc_1 |-> <<t.total_correct_forward, t.total_denominator>>,
                acc_2 |-> <<t.total_correct_backward, t.total_denominator>>]
    IN  IF t.total_denominator = 0
        THEN [raised |-> TRUE, raw |-> raw, line |-> <<>>, tot |-> t]
        ELSE [raised |-> FALSE, raw |-> raw,
              line |-> <<s, a.total_steps, Fmt(done_tokens, e, 2),
                         FmtFrac(raw.loss, 2), FmtFrac(raw.loss_1, 3),
                         FmtFrac(raw.loss_2, 3), FmtFrac(raw.acc_1, 3),
                         FmtFrac(raw.acc_2, 3)>>,
              tot |-> train_bilm_init]

(***************************************************************************)
(* train_cls.                                                               *)
(***************************************************************************)
train_cls_init == [total_loss |-> 0, total_correct |-> 0, total_instances |-> 0]

\* Mutant of train_cls_accumulate: the instance count grows by the batch's tokens.
train_cls_accumulate_tokens(t, b) ==
    [total_loss |-> t.total_loss + b.loss_1,
     total_correct |-> t.total_correct + b.correct_1,
     total_instances |-> t.total_instances + b.rows * b.seqlen]

train_cls_accumulate(t, b) ==
    [total_loss |-> t.total_loss + b.loss_1,
     total_correct |-> t.total_correct + b.correct_1,
     total_instances |-> t.total_instances + b.rows]

train_cls_loss(a, b) == <<b.loss_1, a.accumulation_steps>>

train_cls_report(a, t, b, s, e) ==
    LET done_tokens == nominal_tokens(a, b)
        raw == [steps |-> s, total_steps |-> a.total_steps,
                done_tokens |-> done_tokens, elapsed |-> e,
                loss |-> <<t.total_loss, a.report_steps>>,
                acc_1 |-> <<t.total_correct, t.total_instances>>]
    IN  IF t.total_instances = 0
        THEN [raised |-> TRUE, raw |-> raw, line |-> <<>>, tot |-> t]
        ELSE [raised |-> FALSE, raw |-> raw,
              line |-> <<s, a.total_steps, Fmt(done_tokens, e, 2),
                         FmtFrac(raw.loss, 2), FmtFrac(raw.acc_1, 3)>>,
              tot |-> train_cls_init]

(***************************************************************************)
(* train_mt (also the loop of target "t5").                                 *)
(***************************************************************************)
train_mt_init == [total_loss |-> 0, total_correct |-> 0, total_denominator |-> 0]

train_mt_accumulate(t, b) ==
    [total_loss |-> t.total_loss + b.loss_1,
     total_correct |-> t.total_correct + b.correct_1,
     total_denominator |-> t.total_denominator + b.denominator]

train_mt_loss(a, b) == <<b.loss_1, a.accumulation_steps>>

train_mt_report(a, t, b, s, e) ==
    LET done_tokens == nominal_tokens(a, b)
        raw == [steps |-> s, total_steps |-> a.total_steps,
                done_tokens |-> done_tokens, elapsed |-> e,
                loss |-> <<t.total_loss, a.report_steps>>,
                acc_1 |-> <<t.total_correct, t.total_denominator>>]
    IN  IF t.total_denominator = 0
        THEN [raised |-> TRUE, raw |-> raw, line |-> <<>>, tot |-> t]
        ELSE [raised |-> FALSE, raw |-> raw,
              line |-> <<s, a.total_steps, Fmt(done_tokens, e, 2),
                         FmtFrac(raw.loss, 2), FmtFrac(raw.acc_1, 3)>>,
              tot |-> train_mt_init]

(***************************************************************************)
(* The loop selected by str2trainer[args.target].                           *)
(***************************************************************************)
trainer_init(tr) ==
    CASE tr = "train_bert" -> train_bert_init
      [] tr = "train_albert" -> train_albert_init
      [] tr = "train_mlm" -> train_mlm_init
      [] tr = "train_lm" -> train_lm_init
      [] tr = "train_bilm" -> train_bilm_init
      [] tr = "train_cls" -> train_cls_init
      [] tr = "train_mt" -> train_mt_init

trainer_accumulate(tr, t, b) ==
    CASE tr = "train_bert" -> train_bert_accumulate(t, b)
      [] tr = "train_albert" -> train_albert_accumulate(t, b)
      [] tr = "train_mlm" -> train_mlm_accumulate(t, b)
      [] tr = "train_lm" -> train_lm_accumulate(t, b)
      [] tr = "train_bilm" -> train_bilm_accumulate(t, b)
      [] tr = "train_cls" -> train_cls_accumulate(t, b)
      [] tr = "train_mt" -> train_mt_accumulate(t, b)

trainer_loss(tr, a, b) ==
    CASE tr = "train_bert" -> train_bert_loss(a, b)
      [] tr = "train_albert" -> train_albert_loss(a, b)
      [] tr = "train_mlm" -> train_mlm_loss(a, b)
      [] tr = "train_lm" -> train_lm_loss(a, b)
      [] tr = "train_bilm" -> train_bilm_loss(a, b)
      [] tr = "train_cls" -> train_cls_loss(a, b)
      [] tr = "train_mt" -> train_mt_loss(a, b)

trainer_report(tr, a, t, b, s, e) ==
    CASE tr = "train_bert" -> train_bert_report(a, t, b, s, e)
      [] tr = "train_albert" -> train_albert_report(a, t, b, s, e)
      [] tr = "train_mlm" -> train_mlm_report(a, t, b, s, e)
      [] tr = "train_lm" -> train_lm_report(a, t, b, s, e)
      [] tr = "train_bilm" -> train_bilm_report(a, t, b, s, e)
      [] tr = "train_cls" -> train_cls_report(a, t, b, s, e)
      [] tr = "train_mt" -> train_mt_report(a, t, b, s, e)


(***************************************************************************)
(* The configurations a run is started with (the fields of args the file    *)
(* reads), and train_and_validate's choice of the worker calls.             *)
(***************************************************************************)
LoopConfigs(maxSteps, accums, intervals, fp16s, single_gpus) ==
    [target : Targets,
     total_steps : 1 .. maxSteps,
     accumulation_steps : accums,
     report_steps : intervals,
     save_checkpoint_steps : intervals,
     batch_size : BatchSizes,
     output_model_path : OutputPaths,
     fp16 : fp16s,
     single_gpu : single_gpus,
     gpu_id : DeviceIds,
     amp : {None}]

With(c, dist, w) ==
    [target |-> c.target, total_steps |-> c.total_steps,
     accumulation_steps |-> c.accumulation_steps, report_steps |-> c.report_steps,
     save_checkpoint_steps |-> c.save_checkpoint_steps, batch_size |-> c.batch_size,
     output_model_path |-> c.output_model_path, fp16 |-> c.fp16,
     single_gpu |-> c.single_gpu, gpu_id |-> c.gpu_id, amp |-> c.amp,
     dist_train |-> dist, world_size |-> w, ranks_num |-> w]

\* One launcher starts the whole world (ranks_num = world_size); a run
\* without dist_train has world_size 1.  Three families of runs: long plain
\* runs on the CPU in full precision, short runs under every combination of
\* fp16 and single_gpu, short distributed runs in full precision, and
\* one-step distributed runs under every combination of fp16 and single_gpu.
Configs ==
    { With(c, FALSE, 1) :
        c \in LoopConfigs(MaxSteps, 1 .. MaxAccum, 1 .. MaxInterval, {FALSE}, {FALSE}) }
    \cup
    { With(c, FALSE, 1) :
        c \in LoopConfigs(MaxDistSteps, DistIntervals, DistIntervals, BOOLEAN, BOOLEAN) }
    \cup
    { With(c, TRUE, w) :
        c \in LoopConfigs(MaxDistSteps, DistIntervals, DistIntervals, {FALSE}, {FALSE}),
        w \in WorldSizes }
    \cup
    { With(c, TRUE, w) :
        c \in LoopConfigs(1, {1}, {1}, BOOLEAN, BOOLEAN),
        w \in WorldSizes }

\* mp.spawn(worker, nprocs=args.ranks_num, ...) or the one direct call.
spawned(a) == IF a.dist_train THEN 0 .. (a.ranks_num - 1) ELSE {0}

\* The proc_id each call of worker() gets.
launch_proc_id(a, p) ==
    IF a.dist_train THEN p
    ELSE IF a.single_gpu THEN a.gpu_id
    ELSE None

\* gpu_ranks as passed to worker(): args.gpu_ranks, or None outside dist_train.
RankLists(a) ==
    IF a.dist_train THEN [0 .. (a.ranks_num - 1) -> 0 .. (a.world_size - 1)]
    ELSE {<<>>}

InitWith(a, ranks, installed) ==
    /\ args = [p \in Procs |-> a]
    /\ apex = installed
    /\ gpu_ranks = ranks
    /\ pc = [p \in Procs |-> IF p \in spawned(a) THEN "worker" ELSE "none"]
    /\ proc_id = [p \in Procs |-> IF p \in spawned(a) THEN launch_proc_id(a, p) ELSE None]
    /\ rank = [p \in Procs |-> None]
    /\ gpu_id = [p \in Procs |-> None]
    /\ loader = [p \in Procs |-> None]
    /\ group = {}
    /\ steps = [p \in Procs |-> 0]
    /\ tot = [p \in Procs |-> None]
    /\ cur = [p \in Procs |-> NoDraw]
    /\ grads = [p \in Procs |-> <<>>]
    /\ optimizer = [p \in Procs |-> 0]
    /\ scheduler = [p \in Procs |-> None]
    /\ hist = [p \in Procs |-> <<>>]
    /\ events = [p \in Procs |-> <<>>]
    /\ updates = [p \in Procs |-> <<>>]
    /\ reports = [p \in Procs |-> <<>>]
    /\ checkpoints = [p \in Procs |-> <<>>]

\* A run of one of the configurations C; apex is installed or not (it only
\* matters under fp16).
InitOf(C) ==
    \E a \in C, installed \in BOOLEAN :
        /\ ~a.fp16 => ~installed
        /\ \E ranks \in RankLists(a) : InitWith(a, ranks, installed)

Init == InitOf(Configs)

(***************************************************************************)
(* worker(), up to the call of dist.init_process_group.                     *)
(***************************************************************************)
worker_rank(a, ranks, pid) == IF a.dist_train THEN ranks[pid] ELSE None

\* Mutant of worker_gpu_id: single_gpu is tested before dist_train.
worker_gpu_id_single_first(a, pid) ==
    IF a.single_gpu THEN a.gpu_id
    ELSE IF a.dist_train THEN pid
    ELSE None

worker_gpu_id(a, pid) ==
    IF a.dist_train THEN pid
    ELSE IF a.single_gpu THEN pid
    ELSE None

\* str2dataloader[args.target](args, path, batch_size, shard, shard count, True)
worker_loader(a, rk) ==
    IF a.dist_train THEN <<rk, a.world_size, TRUE>> ELSE <<0, 1, TRUE>>

\* Mutant of worker_scheduler: the schedule is built for the number of
\* optimizer steps of the run.
worker_scheduler_updates(a) ==
    [t_total |-> a.total_steps \div a.accumulation_steps, last_epoch |-> 0]

\* WarmupLinearSchedule(optimizer, warmup_steps=total_steps*warmup, t_total=total_steps)
worker_scheduler(a) == [t_total |-> a.total_steps, last_epoch |-> 0]

\* Mutant of import_fails: the import of apex is not attempted at setup.
import_deferred(a, installed) == FALSE

\* "from apex import amp" raises ImportError: fp16 is asked for and apex is
\* not installed.
import_fails(a, installed) == a.fp16 /\ ~installed

\* args.amp = amp
worker_amp(a) == IF a.fp16 THEN [a EXCEPT !.amp = "amp"] ELSE a

worker(p) ==
    /\ pc[p] = "worker"
    /\ LET a == args[p]
           rk == worker_rank(a, gpu_ranks, proc_id[p])
       IN  /\ rank' = [rank EXCEPT ![p] = rk]
           /\ gpu_id' = [gpu_id EXCEPT ![p] = worker_gpu_id(a, proc_id[p])]
           /\ loader' = [loader EXCEPT ![p] = worker_loader(a, rk)]
           /\ scheduler' = [scheduler EXCEPT ![p] = worker_scheduler(a)]
           /\ IF import_fails(a, apex)
              THEN \* raise ImportError("Please install apex ...")
                   /\ pc' = [pc EXCEPT ![p] = "ImportError"]
                   /\ UNCHANGED <<args, group, steps, tot>>
              ELSE /\ args' = [args EXCEPT ![p] = worker_amp(a)]
                   /\ IF a.dist_train
                      THEN /\ pc' = [pc EXCEPT ![p] = "init_process_group"]
                           /\ group' = group \cup {rk}
                           /\ UNCHANGED <<steps, tot>>
                      ELSE \* the head of str2trainer[args.target](...)
                           /\ pc' = [pc EXCEPT ![p] = "loop"]
                           /\ steps' = [steps EXCEPT ![p] = 1]
                           /\ tot' = [tot EXCEPT ![p] = trainer_init(str2trainer[a.target])]
                           /\ UNCHANGED group
    /\ UNCHANGED <<apex, gpu_ranks, proc_id, cur, grads, optimizer, hist, events,
                   updates, reports, checkpoints>>

(***************************************************************************)
(* dist.init_process_group returns: every rank of the world has entered it. *)
(* Then the DistributedDataParallel wrap and the head of the training loop. *)
(***************************************************************************)
\* Mutant of rendezvous_complete: the join returns without waiting for the peers.
rendezvous_alone(a, joined) == joined # {}

rendezvous_complete(a, joined) == joined = 0 .. (a.world_size - 1)

init_process_group(p) ==
    /\ pc[p] = "init_process_group"
    /\ rendezvous_complete(args[p], group)
    /\ pc' = [pc EXCEPT ![p] = "loop"]
    /\ steps' = [steps EXCEPT ![p] = 1]
    /\ tot' = [tot EXCEPT ![p] = trainer_init(str2trainer[args[p].target])]
    /\ UNCHANGED <<args, apex, gpu_ranks, proc_id, rank, gpu_id, loader, group, cur,
                   grads, optimizer, scheduler, hist, events, updates, reports,
                   checkpoints>>


(***************************************************************************)
(* One iteration of the training loop, first half: the exit test, the       *)
(* fetch, the forward pass and the accumulation into the window.            *)
(***************************************************************************)
\* Mutant of loop_exit: the test compares with total_steps.
loop_exit_early(a, s) == s = a.total_steps

loop_exit(a, s) == s = a.total_steps + 1

Ev(op, s) == [op |-> op, step |-> s]

train_forward(p) ==
    /\ pc[p] = "loop"
    /\ LET a == args[p]
           tr == str2trainer[a.target]
       IN  IF loop_exit(a, steps[p])
           THEN /\ pc' = [pc EXCEPT ![p] = "done"]
                /\ UNCHANGED <<cur, tot, hist, events>>
           ELSE \E b \in Draws(tr) :
                /\ cur' = [cur EXCEPT ![p] = b]
                /\ tot' = [tot EXCEPT ![p] = trainer_accumulate(tr, tot[p], b)]
                /\ hist' = [hist EXCEPT ![p] = Append(@, b)]
                /\ events' = [events EXCEPT ![p] = Append(@, Ev("forward", steps[p]))]
                /\ pc' = [pc EXCEPT ![p] = "backward"]
    /\ UNCHANGED <<args, apex, gpu_ranks, proc_id, rank, gpu_id, loader, group, steps,
                   grads, optimizer, scheduler, updates, reports, checkpoints>>

(***************************************************************************)
(* next(loader_iter) or the forward pass raises (the loader is exhausted,   *)
(* the batch does not unpack): the exception leaves the loop and the worker.*)
(***************************************************************************)
\* Mutant of train_raise: the exception is swallowed and the loop goes on
\* with the next value of the counter.
train_raise_skip(p) ==
    /\ pc[p] = "loop"
    /\ ~loop_exit(args[p], steps[p])
    /\ steps' = [steps EXCEPT ![p] = @ + 1]
    /\ UNCHANGED <<args, apex, gpu_ranks, proc_id, rank, gpu_id, loader, group, pc,
                   tot, cur, grads, optimizer, scheduler, hist, events, updates,
                   reports, checkpoints>>

train_raise(p) ==
    /\ pc[p] = "loop"
    /\ ~loop_exit(args[p], steps[p])
    /\ pc' = [pc EXCEPT ![p] = "raised"]
    /\ UNCHANGED <<args, apex, gpu_ranks, proc_id, rank, gpu_id, loader, group, steps,
                   tot, cur, grads, optimizer, scheduler, hist, events, updates,
                   reports, checkpoints>>

(***************************************************************************)
(* The backward pass.  Under DistributedDataParallel it is a collective:    *)
(* it returns once every rank has entered the backward pass of this step,   *)
(* and leaves the mean of the ranks' gradients in .grad.                    *)
(***************************************************************************)
entered_backward(q, s) ==
    \/ steps[q] > s
    \/ steps[q] = s /\ pc[q] \in {"backward", "ZeroDivisionError"}

\* Mutant of ddp_group: the model is not wrapped, each worker reduces alone.
ddp_self(a, p) == {p}

\* Mutant of ddp_group: the group shrinks to the workers that have not raised.
ddp_live(a, p) == {q \in spawned(a) : pc[q] # "raised"}

\* DistributedDataParallel(model, device_ids=[gpu_id]): the workers whose
\* gradients one backward pass reduces, the process group of the run.
ddp_group(a, p) == spawned(a)

backward_ready(p) ==
    args[p].dist_train =>
        \A q \in ddp_group(args[p], p) : entered_backward(q, steps[p])

RECURSIVE SumLoss(_, _, _)
SumLoss(tr, S, s) ==
    IF S = {} THEN 0
    ELSE LET q == CHOOSE x \in S : TRUE
         IN  trainer_loss(tr, args[q], hist[q][s])[1] + SumLoss(tr, S \ {q}, s)

\* What loss.backward() (or scaled_loss.backward() under amp) adds to .grad.
backward_contribution(p) ==
    LET a == args[p]
        tr == str2trainer[a.target]
        l == trainer_loss(tr, a, cur[p])
    IN  IF a.dist_train
        THEN [step |-> steps[p], num |-> SumLoss(tr, ddp_group(a, p), steps[p]),
              den |-> l[2] * a.world_size,
              via |-> IF a.fp16 THEN a.amp ELSE "loss"]
        ELSE [step |-> steps[p], num |-> l[1], den |-> l[2],
              via |-> IF a.fp16 THEN a.amp ELSE "loss"]

\* loss.backward() (or scaled_loss.backward()) raises: the exception leaves
\* the loop before the optimizer block of the step.  The worker has not
\* completed the collective of this step.
train_backward_raise(p) ==
    /\ pc[p] = "backward"
    /\ pc' = [pc EXCEPT ![p] = "raised"]
    /\ UNCHANGED <<args, apex, gpu_ranks, proc_id, rank, gpu_id, loader, group, steps,
                   tot, cur, grads, optimizer, scheduler, hist, events, updates,
                   reports, checkpoints>>

\* Mutant of optimizer_due: the last step of the run flushes what is pending.
optimizer_due_or_last(a, s) == s % a.accumulation_steps = 0 \/ s = a.total_steps

\* Mutant of optimizer_due: the accumulation test is dropped.
optimizer_due_every(a, s) == TRUE

optimizer_due(a, s) == s % a.accumulation_steps = 0

\* Mutant of report_due: every rank reports.
report_due_any_rank(a, rk, s) == s % a.report_steps = 0

report_due(a, rk, s) == s % a.report_steps = 0 /\ is_writer(a, rk)

\* Mutant of save_due: the last step of the run is always saved.
save_due_or_last(a, rk, s) ==
    (s % a.save_checkpoint_steps = 0 \/ s = a.total_steps) /\ is_writer(a, rk)

save_due(a, rk, s) == s % a.save_checkpoint_steps = 0 /\ is_writer(a, rk)

\* Mutant of step_events: the checkpoint is written before the optimizer block.
step_events_save_first(a, rk, s, printed) ==
    <<Ev("backward", s)>>
    \o (IF save_due(a, rk, s) /\ (report_due(a, rk, s) => printed)
        THEN <<Ev("save_model", s)>> ELSE <<>>)
    \o (IF optimizer_due(a, s)
        THEN <<Ev("optimizer.step", s), Ev("scheduler.step", s), Ev("zero_grad", s)>>
        ELSE <<>>)
    \o (IF report_due(a, rk, s) /\ printed THEN <<Ev("print", s)>> ELSE <<>>)

\* The calls of one iteration after the forward pass, in program order.
step_events(a, rk, s, printed) ==
    <<Ev("backward", s)>>
    \o (IF optimizer_due(a, s)
        THEN <<Ev("optimizer.step", s), Ev("scheduler.step", s), Ev("zero_grad", s)>>
        ELSE <<>>)
    \o (IF report_due(a, rk, s) /\ printed THEN <<Ev("print", s)>> ELSE <<>>)
    \o (IF save_due(a, rk, s) /\ (report_due(a, rk, s) => printed)
        THEN <<Ev("save_model", s)>> ELSE <<>>)

train_backward(p) ==
    /\ pc[p] = "backward"
    /\ backward_ready(p)
    /\ LET a == args[p]
           tr == str2trainer[a.target]
           s == steps[p]
           g1 == Append(grads[p], backward_contribution(p))
           due == optimizer_due(a, s)
           version == IF due THEN optimizer[p] + 1 ELSE optimizer[p]
           g2 == IF due THEN <<>> ELSE g1
       IN  /\ grads' = [grads EXCEPT ![p] = g2]
           /\ optimizer' = [optimizer EXCEPT ![p] = version]
           /\ updates' = [updates EXCEPT ![p] =
                            IF due THEN Append(@, [step |-> s, grad |-> g1]) ELSE @]
           /\ scheduler' = [scheduler EXCEPT ![p].last_epoch =
                            IF due THEN @ + 1 ELSE @]
           /\ IF report_due(a, rank[p], s)
              THEN \E e \in Elapsed :
                     LET r == trainer_report(tr, a, tot[p], cur[p], s, e)
                     IN  IF r.raised
                         THEN \* ZeroDivisionError in the arguments of format()
                              /\ pc' = [pc EXCEPT ![p] = "ZeroDivisionError"]
                              /\ tot' = [tot EXCEPT ![p] = r.tot]
                              /\ events' = [events EXCEPT ![p] =
                                              @ \o step_events(a, rank[p], s, FALSE)]
                              /\ UNCHANGED <<reports, checkpoints, steps>>
                         ELSE /\ reports' = [reports EXCEPT ![p] =
                                    Append(@, [step |-> s, line |-> r.line, raw |-> r.raw])]
                              /\ tot' = [tot EXCEPT ![p] = r.tot]
                              /\ events' = [events EXCEPT ![p] =
                                              @ \o step_events(a, rank[p], s, TRUE)]
                              /\ checkpoints' = [checkpoints EXCEPT ![p] =
                                    IF save_due(a, rank[p], s)
                                    THEN Append(@, [step |-> s,
                                                    path |-> checkpoint_path(a, s),
                                                    version |-> version,
                                                    pending |-> g2])
                                    ELSE @]
                              /\ steps' = [steps EXCEPT ![p] = s + 1]
                              /\ pc' = [pc EXCEPT ![p] = "loop"]
              ELSE /\ events' = [events EXCEPT ![p] =
                                   @ \o step_events(a, rank[p], s, TRUE)]
                   /\ checkpoints' = [checkpoints EXCEPT ![p] =
                         IF save_due(a, rank[p], s)
                         THEN Append(@, [step |-> s,
                                         path |-> checkpoint_path(a, s),
                                         version |-> version,
                                         pending |-> g2])
                         ELSE @]
                   /\ steps' = [steps EXCEPT ![p] = s + 1]
                   /\ pc' = [pc EXCEPT ![p] = "loop"]
                   /\ UNCHANGED <<reports, tot>>
    /\ UNCHANGED <<args, apex, gpu_ranks, proc_id, rank, gpu_id, loader, group, cur, hist>>

Next ==
    \E p \in Procs :
        \/ worker(p)
        \/ init_process_group(p)
        \/ train_forward(p)
        \/ train_raise(p)
        \/ train_backward_raise(p)
        \/ train_backward(p)

Spec == Init /\ [][Next]_vars

(***************************************************************************)
(* The distributed runs alone.                                              *)
(***************************************************************************)
DistConfigs == {a \in Configs : a.dist_train}

InitDist == InitOf(DistConfigs)

SpecDist == InitDist /\ [][Next]_vars

(***************************************************************************)
(* The runs without dist_train alone: one worker, no process group.         *)
(***************************************************************************)
LocalConfigs == {a \in Configs : ~a.dist_train}

InitLocal == InitOf(LocalConfigs)

NextLocal ==
    \E p \in Procs :
        \/ worker(p)
        \/ train_forward(p)
        \/ train_raise(p)
        \/ train_backward_raise(p)
        \/ train_backward(p)

SpecLocal == InitLocal /\ [][NextLocal]_vars

(***************************************************************************)
(* Two runs of one configuration side by side, each train_and_validate      *)
(* without dist_train: process slot 0 is the worker of the first run, slot  *)
(* 1 the worker of the second.  The runs share nothing; they differ in the  *)
(* batches their loaders yield and in what their models return.             *)
(***************************************************************************)
PairConfigs ==
    { With(c, FALSE, 1) :
        c \in LoopConfigs(MaxDistSteps, DistIntervals, DistIntervals, {FALSE}, {FALSE}) }

InitPair ==
    \E a \in PairConfigs :
        /\ args = [p \in Procs |-> a]
        /\ apex = FALSE
        /\ gpu_ranks = <<>>
        /\ pc = [p \in Procs |-> "worker"]
        /\ proc_id = [p \in Procs |-> launch_proc_id(a, 0)]
        /\ rank = [p \in Procs |-> None]
        /\ gpu_id = [p \in Procs |-> None]
        /\ loader = [p \in Procs |-> None]
        /\ group = {}
        /\ steps = [p \in Procs |-> 0]
        /\ tot = [p \in Procs |-> None]
        /\ cur = [p \in Procs |-> NoDraw]
        /\ grads = [p \in Procs |-> <<>>]
        /\ optimizer = [p \in Procs |-> 0]
        /\ scheduler = [p \in Procs |-> None]
        /\ hist = [p \in Procs |-> <<>>]
        /\ events = [p \in Procs |-> <<>>]
        /\ updates = [p \in Procs |-> <<>>]
        /\ reports = [p \in Procs |-> <<>>]
        /\ checkpoints = [p \in Procs |-> <<>>]

SpecPair == InitPair /\ [][NextLocal]_vars


(***************************************************************************)
(* Vocabulary of the properties.                                            *)
(***************************************************************************)
Training == {p \in Procs : pc[p] \in {"loop", "backward", "done", "raised",
                                      "ZeroDivisionError"}}

\* Steps whose iteration ran to its end (the counter was incremented).
finished(p) == steps[p] - 1

\* Steps whose backward pass and optimizer block ran.
stepped(p) == IF pc[p] = "ZeroDivisionError" THEN steps[p] ELSE steps[p] - 1

\* The multiples of k in 1..n, ascending.
Multiples(k, n) == SelectSeq([i \in 1 .. n |-> i], LAMBDA i : i % k = 0)

StepsOf(log) == [i \in 1 .. Len(log) |-> log[i].step]

OpsIn(log, ops) == SelectSeq(log, LAMBDA e : e.op \in ops)

RECURSIVE SeqSum(_)
SeqSum(q) == IF q = <<>> THEN 0 ELSE Head(q) + SeqSum(Tail(q))

(***************************************************************************)
(* C1.  The loop pulls one batch per value 1, 2, ... of the step counter,   *)
(* never pulls a batch once the counter is total_steps + 1, and has         *)
(* terminated only with the counter at total_steps + 1 and exactly          *)
(* total_steps batches pulled.                                              *)
(***************************************************************************)
C1_StepCountDecidesTermination ==
    \A p \in Training :
        /\ steps[p] \in 1 .. (args[p].total_steps + 1)
        /\ StepsOf(OpsIn(events[p], {"forward"})) = [i \in 1 .. Len(hist[p]) |-> i]
        /\ pc[p] \in {"loop", "done"} => Len(hist[p]) = steps[p] - 1
        /\ pc[p] = "raised" => Len(hist[p]) \in {steps[p] - 1, steps[p]}
        /\ pc[p] \in {"backward", "ZeroDivisionError"} =>
              Len(hist[p]) = steps[p] /\ steps[p] <= args[p].total_steps
        /\ pc[p] = "done" =>
              steps[p] = args[p].total_steps + 1 /\ Len(hist[p]) = args[p].total_steps

C1_Witness ==
    \E p \in Procs :
        /\ pc[p] = "done"
        /\ args[p].total_steps = 4
        /\ StepsOf(OpsIn(events[p], {"forward"})) = <<1, 2, 3, 4>>

(***************************************************************************)
(* C2.  optimizer.step(), scheduler.step() and zero_grad() are called       *)
(* back to back, in that order, at exactly the multiples of                 *)
(* accumulation_steps among the steps whose backward pass has run.          *)
(***************************************************************************)
RECURSIVE UpdateCalls(_)
UpdateCalls(ss) ==
    IF ss = <<>> THEN <<>>
    ELSE <<Ev("optimizer.step", Head(ss)), Ev("scheduler.step", Head(ss)),
           Ev("zero_grad", Head(ss))>> \o UpdateCalls(Tail(ss))

C2_UpdateCadence ==
    \A p \in Training :
        LET due == Multiples(args[p].accumulation_steps, stepped(p))
        IN  /\ OpsIn(events[p], {"optimizer.step", "scheduler.step", "zero_grad"})
                 = UpdateCalls(due)
            /\ \A i \in 1 .. Len(events[p]) :
                 events[p][i].op = "optimizer.step" =>
                    /\ i + 2 <= Len(events[p])
                    /\ events[p][i + 1] = Ev("scheduler.step", events[p][i].step)
                    /\ events[p][i + 2] = Ev("zero_grad", events[p][i].step)
            /\ optimizer[p] = Len(due)
            /\ scheduler[p].last_epoch = Len(due)
            /\ StepsOf(updates[p]) = due

C2_Witness ==
    \E p \in Procs :
        /\ pc[p] = "done"
        /\ args[p].total_steps = 4 /\ args[p].accumulation_steps = 2
        /\ optimizer[p] = 2
        /\ StepsOf(OpsIn(events[p], {"optimizer.step"})) = <<2, 4>>

(***************************************************************************)
(* C3.  The checkpoints of a run are those of the multiples of              *)
(* save_checkpoint_steps among the finished steps, each at                  *)
(* output_model_path-<step>; no two save_model calls of the run name the    *)
(* same path, none is tagged 0 and none is tagged beyond total_steps.       *)
(***************************************************************************)
Saves == {x \in Procs \X (1 .. MaxSteps) : x[2] <= Len(checkpoints[x[1]])}

C3_CheckpointNaming ==
    /\ \A p \in Training :
         /\ is_writer(args[p], rank[p]) =>
              StepsOf(checkpoints[p])
                 = Multiples(args[p].save_checkpoint_steps, finished(p))
         /\ \A i \in 1 .. Len(checkpoints[p]) :
              LET c == checkpoints[p][i]
              IN  /\ c.step \in 1 .. args[p].total_steps
                  /\ c.path = args[p].output_model_path \o "-" \o ToString(c.step)
                  /\ c.path # args[p].output_model_path \o "-0"
    /\ \A x \in Saves, y \in Saves :
         x # y => checkpoints[x[1]][x[2]].path # checkpoints[y[1]][y[2]].path

C3_Witness ==
    \E p \in Procs :
        /\ pc[p] = "done"
        /\ args[p].total_steps = 4 /\ args[p].save_checkpoint_steps = 2
        /\ [i \in 1 .. Len(checkpoints[p]) |-> checkpoints[p][i].path]
             = <<"model.bin-2", "model.bin-4">>


(***************************************************************************)
(* C4.  In a distributed run the worker's rank is the rank list's entry at  *)
(* its process id, exactly one worker holds rank 0, that worker has         *)
(* emitted the report and the checkpoint of every due step it finished, and *)
(* no other worker has printed a line or saved a checkpoint.  Outside       *)
(* dist_train the sole worker has emitted every due report and checkpoint   *)
(* of the steps it finished.                                                *)
(***************************************************************************)
Emitted(p) ==
    /\ StepsOf(reports[p]) = Multiples(args[p].report_steps, finished(p))
    /\ StepsOf(checkpoints[p]) = Multiples(args[p].save_checkpoint_steps, finished(p))
    /\ StepsOf(OpsIn(events[p], {"print"})) = StepsOf(reports[p])
    /\ StepsOf(OpsIn(events[p], {"save_model"})) = StepsOf(checkpoints[p])

Silent(p) ==
    /\ reports[p] = <<>>
    /\ checkpoints[p] = <<>>
    /\ OpsIn(events[p], {"print", "save_model"}) = <<>>

C4_SingleWriter ==
    \A p \in Training :
        IF args[p].dist_train
        THEN /\ rank[p] = gpu_ranks[proc_id[p]]
             /\ Cardinality({q \in spawned(args[p]) : gpu_ranks[q] = 0}) = 1
             /\ IF rank[p] = 0 THEN Emitted(p) ELSE Silent(p)
        ELSE /\ Training = {p}
             /\ Emitted(p)

C4_Witness ==
    /\ args[0].dist_train
    /\ gpu_ranks[0] = 1 /\ gpu_ranks[1] = 0
    /\ pc[0] = "done" /\ pc[1] = "done"
    /\ Len(reports[1]) = 2 /\ Len(checkpoints[1]) = 1
    /\ Silent(0)

(***************************************************************************)
(* C5.  Counted over all workers of the run, each step has at most one      *)
(* report line, and has one exactly when it is a multiple of report_steps   *)
(* that the reporting worker finished.  A finished plain masked-LM run with *)
(* total_steps=4, accumulation_steps=2, report_steps=4 and                  *)
(* save_checkpoint_steps=4 has one line, at step 4, one checkpoint, "-4",   *)
(* and optimizer steps at 2 and 4.                                          *)
(***************************************************************************)
LinesAt(s) ==
    {x \in Procs \X (1 .. MaxSteps) :
        x[2] <= Len(reports[x[1]]) /\ reports[x[1]][x[2]].step = s}

MlmScenario(p) ==
    /\ args[p].target = "mlm" /\ ~args[p].dist_train
    /\ args[p].total_steps = 4 /\ args[p].accumulation_steps = 2
    /\ args[p].report_steps = 4 /\ args[p].save_checkpoint_steps = 4
    /\ pc[p] = "done"

C5_OneLinePerInterval ==
    /\ \A s \in 1 .. MaxSteps :
         Cardinality(LinesAt(s)) =
            IF \E p \in Training :
                  /\ is_writer(args[p], rank[p])
                  /\ s % args[p].report_steps = 0
                  /\ s <= finished(p)
            THEN 1 ELSE 0
    /\ \A p \in Procs :
         MlmScenario(p) =>
            /\ Len(reports[p]) = 1 /\ reports[p][1].step = 4
            /\ reports[p][1].line[1] = 4 /\ reports[p][1].line[2] = 4
            /\ Len(checkpoints[p]) = 1 /\ checkpoints[p][1].path = "model.bin-4"
            /\ StepsOf(updates[p]) = <<2, 4>>

C5_Witness ==
    \E p \in Procs : MlmScenario(p) /\ Len(reports[p]) = 1 /\ Len(checkpoints[p]) = 1


(***************************************************************************)
(* The report window of a printed line: the report_steps steps that end at  *)
(* the line's step, as the batches and loss-info tuples of those steps.     *)
(***************************************************************************)
Window(p, r) ==
    [i \in 1 .. args[p].report_steps |->
        hist[p][r.step - args[p].report_steps + i]]

Lines == {x \in Procs \X (1 .. MaxSteps) : x[2] <= Len(reports[x[1]])}

SumLoss1(w) == SeqSum([i \in 1 .. Len(w) |-> w[i].loss_1])
SumLoss2(w) == SeqSum([i \in 1 .. Len(w) |-> w[i].loss_2])
SumCorrect1(w) == SeqSum([i \in 1 .. Len(w) |-> w[i].correct_1])
SumCorrect2(w) == SeqSum([i \in 1 .. Len(w) |-> w[i].correct_2])
SumDenominator(w) == SeqSum([i \in 1 .. Len(w) |-> w[i].denominator])
SumRows(w) == SeqSum([i \in 1 .. Len(w) |-> w[i].rows])
SumTokens(w) == SeqSum([i \in 1 .. Len(w) |-> w[i].rows * w[i].seqlen])

SameQuotient(f, g) == f[1] * g[2] = g[1] * f[2]

TwoLossTrainers == {"train_bert", "train_albert", "train_bilm"}

(***************************************************************************)
(* C6.  Every loss of a printed line, the total and each sub-loss, is the   *)
(* window's sum of that loss divided by report_steps, the total being the   *)
(* sum of the sub-losses before the division by accumulation_steps.         *)
(***************************************************************************)
C6_LossesAreWindowMeans ==
    \A x \in Lines :
        LET p == x[1]
            r == reports[p][x[2]]
            w == Window(p, r)
            n == args[p].report_steps
        IN  /\ SameQuotient(r.raw.loss, <<SumLoss1(w) + SumLoss2(w), n>>)
            /\ str2trainer[args[p].target] \in TwoLossTrainers =>
                 /\ SameQuotient(r.raw.loss_1, <<SumLoss1(w), n>>)
                 /\ SameQuotient(r.raw.loss_2, <<SumLoss2(w), n>>)

(***************************************************************************)
(* C7.  What an optimizer step applies is the sequence of the contributions *)
(* of the accumulation_steps steps that end at it, each that step's loss    *)
(* over accumulation_steps (under DistributedDataParallel: the ranks' mean  *)
(* of it); what .grad holds between optimizer steps is the contributions of *)
(* the steps since the last one.                                            *)
(***************************************************************************)
StepLoss(q, s) == hist[q][s].loss_1 + hist[q][s].loss_2

RECURSIVE RanksLoss(_, _)
RanksLoss(S, s) ==
    IF S = {} THEN 0
    ELSE LET q == CHOOSE y \in S : TRUE
         IN  StepLoss(q, s) + RanksLoss(S \ {q}, s)

Contribution(p, s) ==
    IF args[p].dist_train
    THEN <<s, RanksLoss(spawned(args[p]), s),
           args[p].accumulation_steps * args[p].world_size>>
    ELSE <<s, StepLoss(p, s), args[p].accumulation_steps>>

Contributions(p, first, last) ==
    [i \in 1 .. (last - first + 1) |-> Contribution(p, first + i - 1)]

Held(g) == [i \in 1 .. Len(g) |-> <<g[i].step, g[i].num, g[i].den>>]

C7_AccumulatedGradient ==
    \A p \in Training :
        LET k == args[p].accumulation_steps
            done == stepped(p)
        IN  /\ \A i \in 1 .. Len(updates[p]) :
                 LET u == updates[p][i]
                 IN  Held(u.grad) = Contributions(p, u.step - k + 1, u.step)
            /\ Held(grads[p]) = Contributions(p, done - (done % k) + 1, done)

C7_Witness ==
    \E p \in Procs :
        /\ args[p].accumulation_steps = 2
        /\ Len(updates[p]) = 2
        /\ StepsOf(updates[p][2].grad) = <<3, 4>>
        /\ updates[p][2].grad[1].num # updates[p][2].grad[2].num

(***************************************************************************)
(* C8.  The token count a printed line divides by the elapsed time is the   *)
(* number of tokens of the window's batches (rows times sequence length,    *)
(* summed), times world_size under dist_train.                              *)
(***************************************************************************)
C8_TokensAreCounted ==
    \A x \in Lines :
        LET p == x[1]
            r == reports[p][x[2]]
        IN  r.raw.done_tokens =
               SumTokens(Window(p, r))
                  * (IF args[p].dist_train THEN args[p].world_size ELSE 1)

(***************************************************************************)
(* C9.  The accuracy train_cls prints, and the nsp / sop accuracy           *)
(* train_bert / train_albert print, is the window's sum of correct          *)
(* predictions over the window's sum of batch rows.                         *)
(***************************************************************************)
C9_InstanceAccuracy ==
    \A x \in Lines :
        LET p == x[1]
            r == reports[p][x[2]]
            w == Window(p, r)
            tr == str2trainer[args[p].target]
        IN  /\ tr = "train_cls" =>
                 /\ r.raw.acc_1 = <<SumCorrect1(w), SumRows(w)>>
                 /\ r.line[5] = Fmt(SumCorrect1(w), SumRows(w), 3)
            /\ tr \in {"train_bert", "train_albert"} =>
                 /\ r.raw.acc_2 = <<SumCorrect2(w), SumRows(w)>>
                 /\ r.line[8] = Fmt(SumCorrect2(w), SumRows(w), 3)

C9_Witness ==
    \E x \in Lines :
        LET p == x[1]
            r == reports[p][x[2]]
            w == Window(p, r)
        IN  /\ args[p].target = "cls"
            /\ [i \in 1 .. Len(w) |-> w[i].rows] = <<2, 2, 2>>
            /\ [i \in 1 .. Len(w) |-> w[i].correct_1] = <<1, 2, 2>>
            /\ r.raw.acc_1 = <<5, 6>>
            /\ r.line[5] = 833

(***************************************************************************)
(* C10.  train_bilm prints the forward and the backward accuracy over the   *)
(* same denominator, the window's sum of the steps' denominators.           *)
(***************************************************************************)
C10_SharedDenominator ==
    \A x \in Lines :
        LET p == x[1]
            r == reports[p][x[2]]
            w == Window(p, r)
        IN  args[p].target = "bilm" =>
               /\ r.raw.acc_1 = <<SumCorrect1(w), SumDenominator(w)>>
               /\ r.raw.acc_2 = <<SumCorrect2(w), SumDenominator(w)>>
               /\ r.line[7] = Fmt(SumCorrect1(w), SumDenominator(w), 3)
               /\ r.line[8] = Fmt(SumCorrect2(w), SumDenominator(w), 3)

C10_Witness ==
    \E x \in Lines :
        LET p == x[1]
            r == reports[p][x[2]]
        IN  /\ args[p].target = "bilm"
            /\ r.raw.acc_1 = <<80, 100>>
            /\ r.raw.acc_2 = <<60, 100>>
            /\ r.line[7] = 800
            /\ r.line[8] = 600

(***************************************************************************)
(* C11.  Where every step of a line's window returned counts with           *)
(* 0 <= correct <= denominator (0 <= correct <= rows for the sentence-level *)
(* and the classification accuracy), every accuracy of the line is a        *)
(* quotient correct / denominator with 0 <= correct <= denominator and      *)
(* denominator > 0, printed as a value between 0.000 and 1.000 - in the     *)
(* first window and in every later one.                                     *)
(***************************************************************************)
TwoAccuracyTrainers == {"train_bert", "train_albert", "train_bilm"}

\* The premise on one step's model output, by family.
CountsInRange(tr, b) ==
    CASE tr \in {"train_bert", "train_albert"} ->
            /\ 0 <= b.correct_1 /\ b.correct_1 <= b.denominator
            /\ 0 <= b.correct_2 /\ b.correct_2 <= b.rows
      [] tr = "train_bilm" ->
            /\ 0 <= b.correct_1 /\ b.correct_1 <= b.denominator
            /\ 0 <= b.correct_2 /\ b.correct_2 <= b.denominator
      [] tr = "train_cls" -> 0 <= b.correct_1 /\ b.correct_1 <= b.rows
      [] OTHER -> 0 <= b.correct_1 /\ b.correct_1 <= b.denominator

InUnitInterval(f) == f[2] > 0 /\ 0 <= f[1] /\ f[1] <= f[2]

C11_AccuracyInUnitInterval ==
    \A x \in Lines :
        LET p == x[1]
            r == reports[p][x[2]]
            w == Window(p, r)
            tr == str2trainer[args[p].target]
        IN  (\A i \in 1 .. Len(w) : CountsInRange(tr, w[i])) =>
               IF tr \in TwoAccuracyTrainers
               THEN /\ InUnitInterval(r.raw.acc_1) /\ r.line[7] \in 0 .. 1000
                    /\ InUnitInterval(r.raw.acc_2) /\ r.line[8] \in 0 .. 1000
               ELSE InUnitInterval(r.raw.acc_1) /\ r.line[5] \in 0 .. 1000

\* The second line of a masked-LM run: 3 of 4 correct in its own window.
C11_Witness ==
    \E p \in Procs :
        /\ args[p].target = "mlm" /\ args[p].report_steps = 1
        /\ Len(reports[p]) >= 2
        /\ CountsInRange("train_mlm", Window(p, reports[p][2])[1])
        /\ reports[p][1].raw.acc_1 = <<3, 4>>
        /\ reports[p][2].raw.acc_1 = <<3, 4>>
        /\ reports[p][2].line[5] = 750

(***************************************************************************)
(* C12.  Two lines printed at the same step of two runs of one              *)
(* configuration, over windows with the same sums of losses, correct        *)
(* counts, denominators, rows and tokens, with the same token count in the  *)
(* throughput and with the same elapsed time, are the same line.            *)
(***************************************************************************)
WindowSums(w) ==
    [loss_1 |-> SumLoss1(w), loss_2 |-> SumLoss2(w),
     correct_1 |-> SumCorrect1(w), correct_2 |-> SumCorrect2(w),
     denominator |-> SumDenominator(w), rows |-> SumRows(w),
     tokens |-> SumTokens(w)]

C12_ReportIsFunctionOfWindowSums ==
    \A i \in 1 .. Len(reports[0]), j \in 1 .. Len(reports[1]) :
        LET r0 == reports[0][i]
            r1 == reports[1][j]
        IN  (/\ r0.step = r1.step
             /\ r0.raw.total_steps = r1.raw.total_steps
             /\ r0.raw.elapsed = r1.raw.elapsed
             /\ r0.raw.done_tokens = r1.raw.done_tokens
             /\ WindowSums(Window(0, r0)) = WindowSums(Window(1, r1)))
            => r0.line = r1.line

(***************************************************************************)
(* C13.  A worker started with fp16 where apex cannot be imported never     *)
(* gets past its setup: it is still in the setup or has raised ImportError, *)
(* it has pulled no batch, run no backward pass, optimizer step, report or  *)
(* checkpoint, and under dist_train its rank is not in the process group.   *)
(***************************************************************************)
Launched == {p \in Procs : pc[p] # "none"}

Untrained(p) ==
    /\ steps[p] = 0 /\ tot[p] = None
    /\ hist[p] = <<>> /\ events[p] = <<>> /\ grads[p] = <<>>
    /\ optimizer[p] = 0 /\ updates[p] = <<>>
    /\ reports[p] = <<>> /\ checkpoints[p] = <<>>

C13_FailsBeforeTraining ==
    \A p \in Launched :
        (args[p].fp16 /\ ~apex) =>
            /\ pc[p] \in {"worker", "ImportError"}
            /\ Untrained(p)
            /\ args[p].dist_train /\ pc[p] = "ImportError" => rank[p] \notin group

\* Both workers of a distributed fp16 run have raised; the group is empty.
C13_Witness ==
    /\ args[0].dist_train /\ args[0].fp16 /\ ~apex
    /\ pc[0] = "ImportError" /\ pc[1] = "ImportError"
    /\ Untrained(0) /\ Untrained(1)
    /\ rank[0] # rank[1] /\ group = {}

(***************************************************************************)
(* C14.  After its setup a worker has: under dist_train, rank =             *)
(* gpu_ranks[process id], device = process id and the loader of shard       *)
(* (rank, world_size), whether or not single_gpu is also set; else under    *)
(* single_gpu, rank None, device args.gpu_id and the loader of shard        *)
(* (0, 1); else rank None, device None and the loader of shard (0, 1).      *)
(* Workers of one distributed run with distinct rank-list entries have      *)
(* distinct shards.                                                         *)
(***************************************************************************)
SetUp == {p \in Procs : pc[p] \notin {"none", "worker"}}

C14_TopologyModes ==
    /\ \A p \in SetUp :
         LET a == args[p]
         IN  IF a.dist_train
             THEN /\ proc_id[p] = p
                  /\ rank[p] = gpu_ranks[p]
                  /\ gpu_id[p] = p
                  /\ loader[p] = <<gpu_ranks[p], a.world_size, TRUE>>
             ELSE IF a.single_gpu
             THEN /\ rank[p] = None
                  /\ gpu_id[p] = a.gpu_id
                  /\ loader[p] = <<0, 1, TRUE>>
             ELSE /\ rank[p] = None
                  /\ gpu_id[p] = None
                  /\ loader[p] = <<0, 1, TRUE>>
    /\ \A p \in SetUp, q \in SetUp :
         (args[p].dist_train /\ p # q /\ gpu_ranks[p] # gpu_ranks[q]) =>
            /\ loader[p][1] # loader[q][1]
            /\ loader[p][2] = loader[q][2]

\* Both flags set: process 1 is on device 1 (not args.gpu_id) with rank 0.
C14_Witness ==
    /\ args[0].dist_train /\ args[0].single_gpu
    /\ SetUp = {0, 1}
    /\ gpu_ranks[0] = 1 /\ gpu_ranks[1] = 0
    /\ rank[0] = 1 /\ gpu_id[0] = 0 /\ loader[0] = <<1, 2, TRUE>>
    /\ rank[1] = 0 /\ gpu_id[1] = 1 /\ loader[1] = <<0, 2, TRUE>>
    /\ args[1].gpu_id # gpu_id[1]

(***************************************************************************)
(* C15.  Under dist_train a worker that is in its training loop (it may     *)
(* pull a batch) is one of a run all of whose workers have reached          *)
(* dist.init_process_group, and a worker inside dist.init_process_group     *)
(* cannot return from it while a peer has not reached it.                   *)
(***************************************************************************)
AtOrPastJoin == {p \in Procs : pc[p] = "init_process_group" \/ p \in Training}

C15_StartupBarrier ==
    \A p \in Launched :
        args[p].dist_train =>
            /\ p \in Training => spawned(args[p]) \subseteq AtOrPastJoin
            /\ p \notin Training => steps[p] = 0 /\ hist[p] = <<>>
            /\ (/\ pc[p] = "init_process_group"
                /\ ~(spawned(args[p]) \subseteq AtOrPastJoin))
               => ~ENABLED init_process_group(p)

\* Worker 0 runs step 1 while worker 1, which has reached the join, has not
\* yet returned from it.
C15_Witness ==
    /\ args[0].dist_train
    /\ group = {0, 1}
    /\ pc[0] = "backward" /\ steps[0] = 1 /\ Len(hist[0]) = 1
    /\ pc[1] = "init_process_group"

(***************************************************************************)
(* C16.  Under dist_train the step counters of any two workers in their     *)
(* loops differ by at most one; each worker has applied its optimizer steps *)
(* at the multiples of accumulation_steps among the steps it has backed     *)
(* through, so two workers that have backed through the same steps have     *)
(* applied the same optimizer steps; and workers that have returned have    *)
(* all run total_steps steps and total_steps \div accumulation_steps        *)
(* optimizer steps.                                                         *)
(***************************************************************************)
OptimizerSteps(p) == StepsOf(OpsIn(events[p], {"optimizer.step"}))

C16_LockStep ==
    \A p \in Training, q \in Training :
        args[p].dist_train =>
            /\ steps[p] - steps[q] \in -1 .. 1
            /\ OptimizerSteps(p) = Multiples(args[p].accumulation_steps, stepped(p))
            /\ optimizer[p] = Len(OptimizerSteps(p))
            /\ stepped(p) = stepped(q) => OptimizerSteps(p) = OptimizerSteps(q)
            /\ stepped(p) <= stepped(q) => optimizer[p] <= optimizer[q]
            /\ pc[p] = "done" =>
                 /\ Len(hist[p]) = args[p].total_steps
                 /\ optimizer[p] = args[p].total_steps \div args[p].accumulation_steps
            /\ (pc[p] = "done" /\ pc[q] = "done") =>
                 /\ Len(hist[p]) = Len(hist[q])
                 /\ optimizer[p] = optimizer[q]

\* One worker is a step ahead, blocked in the backward pass of step 2 until
\* its peer, which has not yet left the backward pass of step 1, gets there.
C16_Witness ==
    /\ args[0].dist_train /\ args[0].accumulation_steps = 1
    /\ steps[0] = 2 /\ pc[0] = "backward" /\ ~ENABLED train_backward(0)
    /\ steps[1] = 1 /\ pc[1] = "backward"
    /\ optimizer[0] = 1 /\ optimizer[1] = 0

(***************************************************************************)
(* C17.  Under dist_train, once a worker has left its loop at step k on an  *)
(* exception of the fetch or of the forward pass, no peer ever gets past    *)
(* step k: no peer has returned, no peer's counter is beyond k, no backward *)
(* pass, report or checkpoint of a step >= k exists, and a peer in the      *)
(* backward pass of step k cannot complete it.                              *)
(***************************************************************************)
Aborted ==
    {p \in Procs : /\ args[p].dist_train
                   /\ pc[p] = "raised" /\ Len(hist[p]) = steps[p] - 1}

C17_PeersStall ==
    \A p \in Aborted, q \in Training :
        q # p =>
            /\ pc[q] # "done"
            /\ steps[q] <= steps[p]
            /\ \A i \in 1 .. Len(reports[q]) : reports[q][i].step < steps[p]
            /\ \A i \in 1 .. Len(checkpoints[q]) : checkpoints[q][i].step < steps[p]
            /\ \A s \in steps[p] .. MaxSteps + 1 :
                 Ev("backward", s) \notin {events[q][i] : i \in 1 .. Len(events[q])}
            /\ (pc[q] = "backward" /\ steps[q] = steps[p]) => ~ENABLED train_backward(q)

\* Worker 0's fetch of step 2 raised; worker 1, the reporting rank, ran the
\* forward pass of its last step and is blocked in the backward pass, with
\* the line of step 1 printed and nothing of step 2.
C17_Witness ==
    /\ args[0].dist_train /\ args[0].total_steps = 2 /\ args[0].report_steps = 1
    /\ pc[0] = "raised" /\ steps[0] = 2 /\ Len(hist[0]) = 1
    /\ rank[1] = 0 /\ pc[1] = "backward" /\ steps[1] = 2 /\ Len(hist[1]) = 2
    /\ ~ENABLED train_backward(1)
    /\ StepsOf(reports[1]) = <<1>>

(***************************************************************************)
(* C18.  A worker whose fetch, forward pass or backward pass raised at step *)
(* k has stopped for good with its counter at k: it attempted each of the   *)
(* steps 1..k once, in order; it completed the backward pass of exactly the *)
(* steps before k; every optimizer step, report and checkpoint it made      *)
(* belongs to a step before k; its reports and checkpoints are exactly      *)
(* those due at the steps before k; and none of its operations is enabled.  *)
(***************************************************************************)
UpTo(n) == [i \in 1 .. n |-> i]

Raised == {p \in Procs : pc[p] = "raised"}

WorkerStep(p) ==
    \/ worker(p)
    \/ init_process_group(p)
    \/ train_forward(p)
    \/ train_raise(p)
    \/ train_backward_raise(p)
    \/ train_backward(p)

C18_NoRetry ==
    \A p \in Raised :
        LET k == steps[p]
            a == args[p]
        IN  /\ k \in 1 .. a.total_steps
            /\ Len(hist[p]) \in {k - 1, k}
            /\ StepsOf(OpsIn(events[p], {"forward"})) = UpTo(Len(hist[p]))
            /\ StepsOf(OpsIn(events[p], {"backward"})) = UpTo(k - 1)
            /\ \A i \in 1 .. Len(events[p]) : events[p][i].step <= Len(hist[p])
            /\ \A i \in 1 .. Len(events[p]) :
                 events[p][i].op # "forward" => events[p][i].step < k
            /\ OptimizerSteps(p) = Multiples(a.accumulation_steps, k - 1)
            /\ optimizer[p] = Len(Multiples(a.accumulation_steps, k - 1))
            /\ IF is_writer(a, rank[p])
               THEN /\ StepsOf(reports[p]) = Multiples(a.report_steps, k - 1)
                    /\ StepsOf(checkpoints[p]) = Multiples(a.save_checkpoint_steps, k - 1)
               ELSE Silent(p)
            /\ ~ENABLED WorkerStep(p)

\* The fetch of step 3 of a four-step run raised: the line of step 2 and the
\* checkpoints of steps 1 and 2 exist, nothing of step 3.
C18_Witness ==
    \E p \in Raised :
        /\ args[p].total_steps = 4 /\ args[p].accumulation_steps = 1
        /\ args[p].report_steps = 2 /\ args[p].save_checkpoint_steps = 1
        /\ steps[p] = 3 /\ Len(hist[p]) = 2
        /\ StepsOf(reports[p]) = <<2>>
        /\ StepsOf(checkpoints[p]) = <<1, 2>>
        /\ OptimizerSteps(p) = <<1, 2>>

(***************************************************************************)
(* C19.  On the reporting worker the window accumulators hold, field by     *)
(* field, the accumulation from zero of the steps since the last printed    *)
(* line (of all steps before the first line): they are all zero right after *)
(* a line, they never shrink as steps are added, consecutive lines are      *)
(* report_steps steps apart, and the sums and counts a line prints are      *)
(* those of its own window's steps.                                         *)
(***************************************************************************)
RECURSIVE Accumulated(_, _, _)
Accumulated(tr, t, w) ==
    IF w = <<>> THEN t
    ELSE Accumulated(tr, trainer_accumulate(tr, t, Head(w)), Tail(w))

LastLine(p) == args[p].report_steps * (finished(p) \div args[p].report_steps)

SinceLastLine(p) == SubSeq(hist[p], LastLine(p) + 1, Len(hist[p]))

Reporting ==
    {p \in Training : is_writer(args[p], rank[p]) /\ pc[p] # "ZeroDivisionError"}

C19_AccumulatorsReset ==
    \A p \in Reporting :
        LET tr == str2trainer[args[p].target]
            w == SinceLastLine(p)
        IN  /\ tot[p] = Accumulated(tr, trainer_init(tr), w)
            /\ w = <<>> => \A f \in DOMAIN tot[p] : tot[p][f] = 0
            /\ \A n \in 1 .. Len(w), f \in DOMAIN tot[p] :
                 Accumulated(tr, trainer_init(tr), SubSeq(w, 1, n - 1))[f]
                    <= Accumulated(tr, trainer_init(tr), SubSeq(w, 1, n))[f]
            /\ \A i \in 1 .. Len(reports[p]) :
                 LET r == reports[p][i]
                     v == Window(p, r)
                 IN  /\ r.step = i * args[p].report_steps
                     /\ r.raw.loss[1] = SumLoss1(v) + SumLoss2(v)
                     /\ r.raw.acc_1[1] = SumCorrect1(v)
                     /\ r.raw.acc_1[2] =
                          IF tr = "train_cls" THEN SumRows(v) ELSE SumDenominator(v)

\* After the second line of a train_bert run every accumulator is zero, and
\* the second line printed its own window (3 of 4), not both (6 of 8).
C19_Witness ==
    \E p \in Reporting :
        /\ args[p].target = "bert" /\ args[p].report_steps = 2
        /\ pc[p] = "loop" /\ steps[p] = 5 /\ Len(reports[p]) = 2
        /\ tot[p] = train_bert_init
        /\ reports[p][1].raw.acc_1 = <<6, 8>>
        /\ reports[p][2].raw.acc_1 = <<3, 4>>
        /\ reports[p][2].raw.done_tokens = 7

(***************************************************************************)
(* C20.  No step of a worker, in its setup or in its training loop, changes *)
(* the configuration object it was given: args is the same after the step   *)
(* as before it.                                                            *)
(***************************************************************************)
C20_ConfigurationImmutable == [][args' = args]_vars

(***************************************************************************)
(* C21.  The calls of a worker are logged step by step, and within one step *)
(* in the order forward, backward, optimizer.step, scheduler.step,          *)
(* zero_grad, print, save_model: every call of step s precedes every call   *)
(* of step s + 1 (the counter is incremented last).  The checkpoint tagged  *)
(* s therefore holds the parameters after s \div accumulation_steps         *)
(* optimizer steps, the last of them the one of step s itself when          *)
(* accumulation_steps divides s, and leaves out the s % accumulation_steps  *)
(* contributions, those of the steps since that optimizer step, that are    *)
(* pending in .grad.                                                        *)
(***************************************************************************)
CallOrder(op) ==
    CASE op = "forward" -> 0
      [] op = "backward" -> 1
      [] op = "optimizer.step" -> 2
      [] op = "scheduler.step" -> 3
      [] op = "zero_grad" -> 4
      [] op = "print" -> 5
      [] op = "save_model" -> 6

Precedes(e, f) ==
    \/ e.step < f.step
    \/ e.step = f.step /\ CallOrder(e.op) < CallOrder(f.op)

C21_OrderWithinStep ==
    \A p \in Training :
        LET k == args[p].accumulation_steps
        IN  /\ \A i \in 1 .. (Len(events[p]) - 1) :
                 Precedes(events[p][i], events[p][i + 1])
            /\ \A i \in 1 .. Len(checkpoints[p]) :
                 LET c == checkpoints[p][i]
                 IN  /\ c.version = c.step \div k
                     /\ c.version = Len(SelectSeq(updates[p], LAMBDA u : u.step <= c.step))
                     /\ c.step % k = 0 =>
                          /\ c.version >= 1
                          /\ updates[p][c.version].step = c.step
                     /\ Len(c.pending) = c.step % k
                     /\ StepsOf(c.pending) =
                          [j \in 1 .. (c.step % k) |-> c.step - (c.step % k) + j]
                     /\ \A u \in 1 .. Len(updates[p]), j \in 1 .. Len(c.pending) :
                          \A g \in 1 .. Len(updates[p][u].grad) :
                             updates[p][u].step <= c.step =>
                                updates[p][u].grad[g].step # c.pending[j].step

\* A four-step run with accumulation_steps 2 that saves every step: the
\* checkpoints of steps 1 and 3 hold one pending contribution each, those of
\* steps 2 and 4 hold the update of their own step.
C21_Witness ==
    \E p \in Procs :
        /\ pc[p] = "done"
        /\ args[p].total_steps = 4 /\ args[p].accumulation_steps = 2
        /\ args[p].save_checkpoint_steps = 1 /\ args[p].report_steps = 1
        /\ [i \in 1 .. Len(checkpoints[p]) |-> checkpoints[p][i].version] = <<0, 1, 1, 2>>
        /\ [i \in 1 .. Len(checkpoints[p]) |-> Len(checkpoints[p][i].pending)] = <<1, 0, 1, 0>>
        /\ StepsOf(checkpoints[p][3].pending) = <<3>>
        /\ [i \in 1 .. 7 |-> events[p][i + 4].op] =
             <<"forward", "backward", "optimizer.step", "scheduler.step",
               "zero_grad", "print", "save_model">>

(***************************************************************************)
(* C22.  When a worker has returned from its loop it has made               *)
(* total_steps \div accumulation_steps optimizer steps; the contributions   *)
(* of all its steps are in some optimizer step exactly when                 *)
(* accumulation_steps divides total_steps; otherwise the contributions of   *)
(* the last total_steps % accumulation_steps steps are in .grad, in no      *)
(* optimizer step, and stay there: the worker takes no further step.        *)
(***************************************************************************)
Returned == {p \in Procs : pc[p] = "done"}

\* The steps whose contribution some optimizer step of the worker applied.
Applied(p) ==
    UNION { {updates[p][u].grad[g].step : g \in 1 .. Len(updates[p][u].grad)} :
              u \in 1 .. Len(updates[p]) }

Pending(p) == {grads[p][g].step : g \in 1 .. Len(grads[p])}

C22_TrailingGradientsDropped ==
    \A p \in Returned :
        LET n == args[p].total_steps
            k == args[p].accumulation_steps
        IN  /\ optimizer[p] = n \div k
            /\ Len(updates[p]) = n \div k
            /\ Len(OptimizerSteps(p)) = n \div k
            /\ (1 .. n \subseteq Applied(p)) <=> (n % k = 0)
            /\ Applied(p) = 1 .. (n - (n % k))
            /\ Pending(p) = (n - (n % k) + 1) .. n
            /\ Len(grads[p]) = n % k
            /\ Applied(p) \cap Pending(p) = {}
            /\ ~ENABLED WorkerStep(p)

\* Three steps under accumulation_steps 2: one optimizer step, at step 2;
\* the contribution of step 3 is left in .grad.
C22_Witness ==
    \E p \in Returned :
        /\ args[p].total_steps = 3 /\ args[p].accumulation_steps = 2
        /\ optimizer[p] = 1 /\ OptimizerSteps(p) = <<2>>
        /\ Applied(p) = {1, 2} /\ Pending(p) = {3}

(***************************************************************************)
(* C23.  The schedule a worker builds has t_total = total_steps.  Between   *)
(* the statements of the loop it has been advanced as many times as the     *)
(* optimizer has stepped, each scheduler.step() being the call right after  *)
(* an optimizer.step() of the same step, never more than total_steps times; *)
(* a worker that has returned has advanced it                               *)
(* total_steps \div accumulation_steps times, which is t_total exactly when *)
(* accumulation_steps is 1.                                                 *)
(***************************************************************************)
Advances(p) == Len(OpsIn(events[p], {"scheduler.step"}))

C23_ScheduleFollowsOptimizer ==
    \A p \in SetUp :
        LET n == args[p].total_steps
            k == args[p].accumulation_steps
        IN  /\ scheduler[p].t_total = n
            /\ scheduler[p].last_epoch = optimizer[p]
            /\ scheduler[p].last_epoch = Advances(p)
            /\ Advances(p) = Len(OptimizerSteps(p))
            /\ \A i \in 1 .. Len(events[p]) :
                 events[p][i].op = "scheduler.step" =>
                    i > 1 /\ events[p][i - 1] = Ev("optimizer.step", events[p][i].step)
            /\ scheduler[p].last_epoch <= n
            /\ scheduler[p].last_epoch = scheduler[p].t_total => k = 1
            /\ pc[p] = "done" =>
                 /\ scheduler[p].last_epoch = n \div k
                 /\ (scheduler[p].last_epoch = scheduler[p].t_total) <=> (k = 1)

\* A returned four-step run under accumulation_steps 2: the schedule built
\* for four steps was advanced twice.
C23_Witness ==
    \E p \in SetUp :
        /\ pc[p] = "done"
        /\ args[p].total_steps = 4 /\ args[p].accumulation_steps = 2
        /\ scheduler[p].t_total = 4 /\ scheduler[p].last_epoch = 2
        /\ optimizer[p] = 2

(***************************************************************************)
(* C24.  When every worker of a run has returned from its loop, a           *)
(* checkpoint tagged total_steps exists exactly when save_checkpoint_steps  *)
(* divides total_steps; the checkpoints and the lines of the run are those  *)
(* of the multiples of the two intervals up to total_steps and no more (the *)
(* exit adds none); and the steps after the last multiple of report_steps   *)
(* are in the window of no line: the accumulators are not back at zero.     *)
(***************************************************************************)
Completed(p) == \A q \in spawned(args[p]) : pc[q] = "done"

Tags(p) ==
    UNION { {checkpoints[q][i].step : i \in 1 .. Len(checkpoints[q])} :
              q \in spawned(args[p]) }

\* The steps in the window of some line of the run.
Covered(p) ==
    UNION { UNION { (reports[q][i].step - args[q].report_steps + 1) .. reports[q][i].step :
                      i \in 1 .. Len(reports[q]) } :
              q \in spawned(args[p]) }

C24_NoFinalSaveOrReport ==
    \A p \in Returned :
        Completed(p) =>
            LET n == args[p].total_steps
                c == args[p].save_checkpoint_steps
                r == args[p].report_steps
                tr == str2trainer[args[p].target]
            IN  /\ (n \in Tags(p)) <=> (n % c = 0)
                /\ Tags(p) = {s \in 1 .. n : s % c = 0}
                /\ Covered(p) = 1 .. (n - (n % r))
                /\ \A s \in (n - (n % r) + 1) .. n : s \notin Covered(p)
                /\ is_writer(args[p], rank[p]) =>
                     /\ StepsOf(checkpoints[p]) = Multiples(c, n)
                     /\ StepsOf(reports[p]) = Multiples(r, n)
                     /\ events[p][Len(events[p])].step = n
                     /\ events[p][Len(events[p])].op = "print" => n % r = 0
                     /\ events[p][Len(events[p])].op = "save_model" => n % c = 0
                     /\ n % r # 0 => tot[p] # trainer_init(tr)

\* A returned four-step run with both intervals 3: one checkpoint, tagged 3,
\* one line, at step 3, and step 4 is neither saved nor reported.
C24_Witness ==
    \E p \in Returned :
        /\ Completed(p)
        /\ args[p].total_steps = 4
        /\ args[p].save_checkpoint_steps = 3 /\ args[p].report_steps = 3
        /\ Tags(p) = {3} /\ Covered(p) = {1, 2, 3}
        /\ [i \in 1 .. Len(checkpoints[p]) |-> checkpoints[p][i].path] = <<"model.bin-3">>
        /\ tot[p] # trainer_init(str2trainer[args[p].target])

(***************************************************************************)
(* C25.  A worker is stopped by ZeroDivisionError only as the reporting     *)
(* worker, at a multiple s of report_steps whose window's denominator sum   *)
(* is zero; then the optimizer steps up to and including step s have been   *)
(* applied, the accumulators still hold the window, there is no line and no *)
(* checkpoint of step s, and the worker takes no further step.  No line     *)
(* exists over a window whose denominator is zero.  The other workers of a  *)
(* distributed run never raise it, whatever their own windows hold: they    *)
(* finish step s, and one that starts step s + 1 cannot complete its        *)
(* backward pass.                                                           *)
(***************************************************************************)
ZeroDivision == {p \in Procs : pc[p] = "ZeroDivisionError"}

ZeroWindow(tr, w) ==
    CASE tr \in {"train_bert", "train_albert"} ->
            SumDenominator(w) = 0 \/ SumRows(w) = 0
      [] tr = "train_cls" -> SumRows(w) = 0
      [] OTHER -> SumDenominator(w) = 0

Unreset(p, w) ==
    LET tr == str2trainer[args[p].target]
        acc == Accumulated(tr, trainer_init(tr), w)
    IN  \A f \in DOMAIN acc :
            tot[p][f] = IF f = "done_tokens" /\ args[p].dist_train
                        THEN acc[f] * args[p].world_size
                        ELSE acc[f]

C25_ZeroDenominatorAborts ==
    /\ \A p \in ZeroDivision :
         LET a == args[p]
             s == steps[p]
             w == SubSeq(hist[p], s - a.report_steps + 1, s)
         IN  /\ is_writer(a, rank[p])
             /\ s % a.report_steps = 0
             /\ ZeroWindow(str2trainer[a.target], w)
             /\ OptimizerSteps(p) = Multiples(a.accumulation_steps, s)
             /\ optimizer[p] = s \div a.accumulation_steps
             /\ Len(grads[p]) = s % a.accumulation_steps
             /\ Unreset(p, w)
             /\ StepsOf(reports[p]) = Multiples(a.report_steps, s - 1)
             /\ StepsOf(checkpoints[p]) = Multiples(a.save_checkpoint_steps, s - 1)
             /\ OpsIn(events[p], {"print", "save_model"})
                  = SelectSeq(OpsIn(events[p], {"print", "save_model"}),
                              LAMBDA e : e.step < s)
             /\ events[p][Len(events[p])].op \in {"backward", "zero_grad"}
             /\ ~ENABLED WorkerStep(p)
             /\ \A q \in Training \ {p} :
                  a.dist_train =>
                     /\ pc[q] # "ZeroDivisionError"
                     /\ steps[q] <= s + 1
                     /\ (pc[q] = "backward" /\ steps[q] = s + 1) =>
                           ~ENABLED train_backward(q)
                     /\ pc[q] = "done" => s = a.total_steps
    /\ \A x \in Lines :
         LET p == x[1]
             r == reports[p][x[2]]
         IN  ~ZeroWindow(str2trainer[args[p].target], Window(p, r))
    /\ \A q \in Training :
         ~is_writer(args[q], rank[q]) => Silent(q) /\ pc[q] # "ZeroDivisionError"

\* Rank 0 of a two-step masked-LM run that reports and saves every step got
\* a zero denominator at step 1: it has made the optimizer step, printed and
\* saved nothing.  Its peer, whose own step 1 had a zero denominator too, is
\* in the backward pass of step 2 and cannot complete it.
C25_Witness ==
    \E p \in ZeroDivision, q \in Training :
        /\ args[p].dist_train /\ args[p].target = "mlm"
        /\ args[p].total_steps = 2 /\ args[p].accumulation_steps = 1
        /\ args[p].report_steps = 1 /\ args[p].save_checkpoint_steps = 1
        /\ rank[p] = 0 /\ steps[p] = 1
        /\ optimizer[p] = 1 /\ reports[p] = <<>> /\ checkpoints[p] = <<>>
        /\ tot[p].total_loss > 0 /\ tot[p].total_denominator = 0
        /\ q # p /\ hist[q][1].denominator = 0
        /\ pc[q] = "backward" /\ steps[q] = 2 /\ ~ENABLED train_backward(q)

====
